---- MODULE Spec2Model ----
(***************************************************************************)
(* Session lifecycle and message routing of the finance WhatsApp bot:      *)
(* startup validation (src/src/index.ts main), the WhatsAppBot class       *)
(* (src/src/bot/whatsapp.ts: connect, its three event listeners,           *)
(* sendMessage) and the protocol session that drives them.                 *)
(*                                                                         *)
(* One action is one run-to-completion step of the Node event loop: a      *)
(* callback runs from the event that starts it up to its next await.       *)
(***************************************************************************)
EXTENDS Integers, Sequences, FiniteSets, TLC

\* ------------------------------------------------------------------ bounds
MaxSockets == 2      \* sockets makeWASocket may create in one run
MaxBatches == 2      \* 'messages.upsert' listener invocations under way at once
MaxBatchLen == 2     \* messages in one 'messages.upsert' event
MaxWideLen == 2      \* messages in one event of the listener sweep
MaxRawLen == 3       \* characters of ALLOWED_CHATS in the startup sweep
MaxCreds == 1        \* credentials updates in one run
MaxCalls == 2        \* calls of the sending methods from outside the listener
MaxFaults == 2       \* errors reaching the process-level handlers in one run
MaxFragments == 2    \* fragments an error message is made of
TickMs == 2500       \* granularity of the clock that drives setTimeout

\* ------------------------------------------------------- program constants
ReconnectDelayMs == 5000
loggedOut == 401

NoSock == 0
HandlerThrewExitCode == 7
Undefined == "<undefined>"

\* --------------------------------------------------------------- utilities
Min(a, b) == IF a < b THEN a ELSE b

Range(s) == {s[i] : i \in 1..Len(s)}

\* The sequences over S of length at most n.
SeqsUpTo(S, n) == UNION {[1..k -> S] : k \in 0..n}

\* ------------------------------------------------- the process environment
\* A text is a sequence of one-character strings; an environment variable is
\* either unset or holds a text.
Chars == {"a", "b", ",", " "}
Unset == [defined |-> FALSE, chars |-> <<>>]
Text(cs) == [defined |-> TRUE, chars |-> cs]

OtherEnvVars == {"GOOGLE_PROJECT_ID", "GOOGLE_CLIENT_EMAIL", "GOOGLE_PRIVATE_KEY",
                 "SHEET_ID", "BOT_PHONE_NUMBER"}
requiredEnvVars == OtherEnvVars \cup {"ALLOWED_CHATS"}

\* String.prototype.split(','): the pieces between the commas, empty ones kept.
RECURSIVE SplitFrom(_, _, _)
SplitFrom(cs, i, cur) ==
  IF i > Len(cs) THEN <<cur>>
  ELSE IF cs[i] = "," THEN <<cur>> \o SplitFrom(cs, i + 1, <<>>)
  ELSE SplitFrom(cs, i + 1, Append(cur, cs[i]))

Split(cs) == SplitFrom(cs, 1, <<>>)

\* String.prototype.trim(): leading and trailing blanks removed.
RECURSIVE TrimLeft(_)
TrimLeft(cs) == IF cs # <<>> /\ Head(cs) = " " THEN TrimLeft(Tail(cs)) ELSE cs

RECURSIVE TrimRight(_)
TrimRight(cs) ==
  IF cs # <<>> /\ cs[Len(cs)] = " " THEN TrimRight(SubSeq(cs, 1, Len(cs) - 1)) ELSE cs

Trim(cs) == TrimRight(TrimLeft(cs))

\* .filter(c => c): the empty strings dropped, the order kept.
RECURSIVE DropBlank(_)
DropBlank(list) ==
  IF list = <<>> THEN <<>>
  ELSE IF Head(list) = <<>> THEN DropBlank(Tail(list))
  ELSE <<Head(list)>> \o DropBlank(Tail(list))

\* process.env.ALLOWED_CHATS?.split(',').map(c => c.trim()).filter(c => c) || []
ParseAllowedChats(v) ==
  IF ~v.defined THEN <<>>
  ELSE LET parts == Split(v.chars)
       IN DropBlank([i \in 1..Len(parts) |-> Trim(parts[i])])

\* !process.env[varName]: unset, or set to the empty string.
Falsy(v) == ~v.defined \/ v.chars = <<>>

\* ------------------------------------------------------ the error values
\* The texts the process-level handlers look for.
BadMAC == <<"B", "a", "d", " ", "M", "A", "C">>
Decrypt == <<"d", "e", "c", "r", "y", "p", "t">>
SessionError == <<"S", "e", "s", "s", "i", "o", "n", " ", "e", "r", "r", "o", "r">>

\* Error messages are made of these fragments: the three texts, the two
\* halves of one of them, and one of them in lower case.
Fragments ==
  {BadMAC, Decrypt, SessionError,
   <<"B", "a", "d">>, <<" ", "M", "A", "C">>,
   <<"b", "a", "d", " ", "m", "a", "c">>}

RECURSIVE Concat(_)
Concat(parts) == IF parts = <<>> THEN <<>> ELSE Head(parts) \o Concat(Tail(parts))

Texts == {Concat(parts) : parts \in SeqsUpTo(Fragments, MaxFragments)}

\* What is thrown or rejected with: an Error with its message, or a value
\* that is no Error, here a string; str is String(value). For an Error that
\* is its name alone when the message is empty, and else the name, a colon,
\* a blank and the message.
ErrorOf(msg) ==
  [isError |-> TRUE, message |-> Text(msg),
   str |-> IF msg = <<>> THEN <<"E", "r", "r", "o", "r">>
           ELSE <<"E", "r", "r", "o", "r", ":", " ">> \o msg]
StringValue(txt) == [isError |-> FALSE, message |-> Unset, str |-> txt]
Errors == {ErrorOf(m) : m \in Texts}
Thrown == Errors \cup {StringValue(t) : t \in Texts}

\* String.prototype.includes(pat): pat is looked for at every position from
\* i on.
RECURSIVE IncludesFrom(_, _, _)
IncludesFrom(text, pat, i) ==
  IF i + Len(pat) - 1 > Len(text) THEN FALSE
  ELSE IF SubSeq(text, i, i + Len(pat) - 1) = pat THEN TRUE
  ELSE IncludesFrom(text, pat, i + 1)

StringIncludes(text, pat) == IncludesFrom(text, pat, 1)

\* errorMsg.includes('Bad MAC') || errorMsg.includes('decrypt') ||
\* errorMsg.includes('Session error')
IsTransient(errorMsg) ==
  \/ StringIncludes(errorMsg, BadMAC)
  \/ StringIncludes(errorMsg, Decrypt)
  \/ StringIncludes(errorMsg, SessionError)

\* error instanceof Error ? error.message : String(error)
RejectionMsg(error) == IF error.isError THEN error.message.chars ELSE error.str

\* new Error('Nenhum chat autorizado configurado em ALLOWED_CHATS')
NoChatsMessage ==
  <<"N", "e", "n", "h", "u", "m", " ", "c", "h", "a", "t", " ", "a", "u",
    "t", "o", "r", "i", "z", "a", "d", "o", " ", "c", "o", "n", "f", "i",
    "g", "u", "r", "a", "d", "o", " ", "e", "m", " ", "A", "L", "L", "O",
    "W", "E", "D", "_", "C", "H", "A", "T", "S">>

NoChatsError == ErrorOf(NoChatsMessage)

\* What an awaited call into the protocol library or the message handler
\* rejects with: an error of no account, or one whose message holds one of
\* the three texts.
AwaitErrors == {ErrorOf(<<"B", "a", "d">>), ErrorOf(Decrypt)}

NoFault == [n |-> 0, kind |-> "none", error |-> StringValue(<<>>), logged |-> FALSE]

VARIABLES
  env,        \* process.env: the required variables
  mainPc,     \* where main() stands
  running,    \* the process has not exited
  exitCode,   \* its exit code, once it has exited
  reported,   \* the variable names printed as missing
  rejections, \* whose promises have reached the 'unhandledRejection' handler
  botCreated, \* new WhatsAppBot() has run
  sock,       \* WhatsAppBot.sock: NoSock for null, else the socket
  nsock,      \* sockets created so far
  sockState,  \* the protocol state of each socket
  sockAuth,   \* the credentials each socket was created with
  listeners,  \* listeners attached to each socket's emitter, per event
  savedCreds, \* the credentials in the auth folder (0: none)
  saving,     \* the credentials whose write to the folder is under way, in
              \* the order the writes were started
  lastDisconnect, \* the reason the close of the session in this.sock gave
  timers,     \* the reconnect timers set so far
  conns,      \* the connect() invocations so far
  runs,       \* the 'messages.upsert' listener invocations under way, in
              \* the order of their events, each with what it has done
  calls,      \* the calls of bot.sendMessage and bot.reply made from outside
              \* the listener, each with what became of it
  fault       \* the last error that reached a process-level handler, how
              \* many have, and whether the handler logged it

vars == <<env, mainPc, running, exitCode, reported, rejections, botCreated, sock,
          nsock, sockState, sockAuth, listeners, savedCreds, lastDisconnect, timers, conns, runs,
          calls, fault, saving>>

Sockets == 1..MaxSockets

\* ------------------------------------------------------ inbound messages
\* A chat identifier (remoteJid) is a text.
JidA == <<"a">>
JidB == <<"b">>
JidAB == <<"a", "b">>
Jids == {JidA, JidB, JidAB}

\* msg.message: absent, or a payload with its optional text fields.
NoPayload == [present |-> FALSE, conversation |-> Undefined, extText |-> Undefined]
Payload(c, e) == [present |-> TRUE, conversation |-> c, extText |-> e]
Payloads == {NoPayload} \cup {Payload(c, e) : c \in {Undefined, "", "hi"},
                                               e \in {Undefined, "", "yo"}}

\* Every message of the listener sweep; the bot's own either carry a text or
\* no payload.
AllMessages ==
  {m \in [fromMe : BOOLEAN, remoteJid : Jids, message : Payloads] :
     m.fromMe => m.message \in {Payload("hi", Undefined), NoPayload}}

\* The messages of the runs that follow the whole session: one that is
\* accepted, one from a chat that is not allowed, one of the bot's own.
Messages ==
  {m \in AllMessages :
     /\ m.message = Payload("hi", Undefined)
     /\ m.remoteJid # JidB
     /\ m.fromMe => m.remoteJid = JidA}


\* Truthy taking the empty string for a text.
TruthyIfDefined(x) == x # Undefined

\* A JavaScript value used as a condition.
Truthy(x) == x \notin {Undefined, ""}

\* IsFromMe with the test lost: no message counts as the bot's own.
IsFromMeNever(msg) == FALSE

\* msg.key.fromMe
IsFromMe(msg) == msg.fromMe

\* !msg.message
NoMessage(msg) == ~msg.message.present

\* Includes matching a part of the identifier (from.startsWith(c)) instead of
\* the whole of it.
IncludesPrefix(list, from) ==
  \E i \in 1..Len(list) :
    Len(list[i]) <= Len(from) /\ SubSeq(from, 1, Len(list[i])) = list[i]

\* allowedChats.includes(from)
Includes(list, from) == \E i \in 1..Len(list) : list[i] = from

\* Unauthorized with the filter left out.
UnauthorizedNever(list, from) == FALSE

\* allowedChats.length > 0 && !allowedChats.includes(from)
Unauthorized(list, from) == Len(list) > 0 /\ ~Includes(list, from)

\* msg.message.conversation || msg.message.extendedTextMessage?.text || ''
MessageText(msg) ==
  IF Truthy(msg.message.conversation) THEN msg.message.conversation
  ELSE IF Truthy(msg.message.extText) THEN msg.message.extText
  ELSE ""

\* The for loop of the 'messages.upsert' listener from message i on, up to the
\* point where it leaves the synchronous part: the next onMessage call, the
\* return on an unauthorized sender, or the end of the batch.
RECURSIVE Scan(_, _, _)
Scan(msgs, i, list) ==
  IF i > Len(msgs) THEN [stop |-> "end", at |-> i]
  ELSE IF IsFromMe(msgs[i]) THEN Scan(msgs, i + 1, list)
  ELSE IF NoMessage(msgs[i]) THEN Scan(msgs, i + 1, list)
  ELSE IF Unauthorized(list, msgs[i].remoteJid) THEN [stop |-> "return", at |-> i]
  ELSE IF Truthy(MessageText(msgs[i])) THEN [stop |-> "call", at |-> i]
  ELSE Scan(msgs, i + 1, list)


\* ----------------------------------------------------- the message listener
AllowedChats == ParseAllowedChats(env["ALLOWED_CHATS"])

\* A listener invocation: the socket and the listener it runs for, its batch,
\* the message it stands at, and what it has done so far: the onMessage calls
\* made, the messages whose handler threw, the messages for which a transport
\* send was started and those for which it succeeded, and the send under way
\* with the chat it is addressed to.
NewRun(s, n, batch) ==
  [sock |-> s, listener |-> n, msgs |-> batch, idx |-> 0, phase |-> "start",
   ended |-> "no", called |-> <<>>, threw |-> {}, tried |-> {}, replied |-> {},
   sendSock |-> NoSock, sendState |-> "none", sendTo |-> <<>>]

\* The invocation r goes on from message i to its next suspension: at
\* 'await onMessage(from, messageText)', whose call is recorded, or at the
\* end of the listener.
Resume(r, i) ==
  LET s == Scan(r.msgs, i, AllowedChats)
  IN IF s.stop = "call"
     THEN [r EXCEPT !.idx = s.at, !.phase = "handler",
                    !.called = Append(@, [idx |-> s.at,
                                          from |-> r.msgs[s.at].remoteJid,
                                          text |-> MessageText(r.msgs[s.at])])]
     ELSE [r EXCEPT !.idx = s.at, !.phase = "done", !.ended = s.stop]

\* An event is handed to every listener attached for it, in turn: n
\* invocations, each run up to its first await.
RECURSIVE StartRuns(_, _, _)
StartRuns(s, batch, n) ==
  IF n = 0 THEN <<>>
  ELSE Append(StartRuns(s, batch, n - 1), Resume(NewRun(s, n, batch), 1))

\* CatchesHandlerError with the try/catch around the call left out.
HandlerErrorEscapes == FALSE

\* try { await onMessage(from, messageText) } catch (error) { console.error(...) }
CatchesHandlerError == TRUE

\* OnMessageFailed with the try/catch around the whole loop: the error is
\* caught and the listener ends.
OnMessageFailedEndsLoop(r) == [r EXCEPT !.phase = "done", !.ended = "caught"]

\* onMessage rejected in the invocation r: caught, the loop goes on with the
\* next message; uncaught, the listener ends there and its promise rejects.
OnMessageFailed(r) ==
  IF CatchesHandlerError
  THEN Resume(r, r.idx + 1)
  ELSE [r EXCEPT !.phase = "done", !.ended = "threw"]

\* --------------------------------------------------------- the connection
\* The reason of a close: lastDisconnect.error.output.statusCode, if any.
NoError == [present |-> FALSE, statusCode |-> 0]
Boom(code) == [present |-> TRUE, statusCode |-> code]
StatusCodes == {loggedOut, 515}
Reasons == {NoError} \cup {Boom(c) : c \in StatusCodes}

\* ShouldReconnect with the reason not looked at.
ShouldReconnectAlways(reason) == TRUE

\* statusCode !== DisconnectReason.loggedOut
ShouldReconnect(reason) == ~(reason.present /\ reason.statusCode = loggedOut)

\* ReconnectTimers setting the timer twice.
ReconnectTimersTwice(s, reason) ==
  IF ShouldReconnect(reason)
  THEN <<[sock |-> s, delay |-> ReconnectDelayMs, waited |-> 0, fired |-> FALSE],
         [sock |-> s, delay |-> ReconnectDelayMs, waited |-> 0, fired |-> FALSE]>>
  ELSE <<>>

\* setTimeout(() => this.connect(onMessage), 5000) when shouldReconnect.
ReconnectTimers(s, reason) ==
  IF ShouldReconnect(reason)
  THEN <<[sock |-> s, delay |-> ReconnectDelayMs, waited |-> 0, fired |-> FALSE]>>
  ELSE <<>>

\* The 'connection.update' listener run n times on a close of socket s.
RECURSIVE OnClose(_, _, _, _)
OnClose(ts, s, reason, n) ==
  IF n = 0 THEN ts ELSE OnClose(ts \o ReconnectTimers(s, reason), s, reason, n - 1)

NoListeners == [creds |-> 0, conn |-> 0, msgs |-> 0]

\* AttachListeners registering every listener twice.
AttachListenersTwice(l) ==
  [creds |-> l.creds + 2, conn |-> l.conn + 2, msgs |-> l.msgs + 2]

\* this.sock.ev.on('creds.update' | 'connection.update' | 'messages.upsert', ...)
AttachListeners(l) ==
  [creds |-> l.creds + 1, conn |-> l.conn + 1, msgs |-> l.msgs + 1]

\* const { state, saveCreds } = await useMultiFileAuthState(this.authFolder):
\* the credentials the folder holds, fresh ones (0) if it holds none.
LoadCreds(saved) == saved

\* if (!this.sock) throw new Error('Bot não está conectado')
NotConnected(sk) == sk = NoSock

\* The methods of the bot that send a text.
SendOps == {"sendMessage", "reply"}

\* SwallowsSendError with the try/catch of sendMessage left out.
SwallowsNoSendError(op) == FALSE

\* sendMessage awaits the transport send inside try { } catch { console.error }
\* and does not rethrow; reply awaits it bare.
SwallowsSendError(op) == op = "sendMessage"

Live(s) == sockState[s] \in {"connecting", "pairing", "open"}

\* ------------------------------------------------------------------- Init
AllSet == [k \in OtherEnvVars |-> Text(<<"a">>)]

EnvWith(others, allowed) ==
  [k \in requiredEnvVars |-> IF k = "ALLOWED_CHATS" THEN allowed ELSE others[k]]

\* The configuration of the runs that are followed past startup, and one of
\* each kind that startup turns down.
RunConfigs ==
  {EnvWith(AllSet, Text(<<" ", "a", ",", "b">>)),
   EnvWith(AllSet, Text(<<" ", ",">>)),
   EnvWith([AllSet EXCEPT !["SHEET_ID"] = Unset], Text(<<"a">>))}

\* The configurations of the listener sweep.
ListenerConfigs ==
  {EnvWith(AllSet, Text(cs)) : cs \in {<<"a">>, <<" ", "a", ",", "b">>, <<"a", "b">>}}

\* Every configuration of the startup sweep.
AllConfigs ==
  {EnvWith(o, a) : o \in [OtherEnvVars -> {Unset, Text(<<>>), Text(<<"a">>)}],
                   a \in {Unset} \cup {Text(cs) : cs \in SeqsUpTo(Chars, MaxRawLen)}}

InitWith(configs, creds) ==
  /\ env \in configs
  /\ mainPc = "start"
  /\ running = TRUE
  /\ exitCode = 0
  /\ reported = {}
  /\ rejections = {}
  /\ botCreated = FALSE
  /\ sock = NoSock
  /\ nsock = 0
  /\ sockState = [s \in Sockets |-> "none"]
  /\ sockAuth = [s \in Sockets |-> 0]
  /\ listeners = [s \in Sockets |-> NoListeners]
  /\ savedCreds \in creds
  /\ saving = <<>>
  /\ lastDisconnect = NoError
  /\ timers = <<>>
  /\ conns = <<>>
  /\ runs = <<>>
  /\ calls = <<>>
  /\ fault = NoFault

Init == InitWith(RunConfigs, {0, 1})

InitStartup == InitWith(AllConfigs, {0})

InitListener == InitWith(ListenerConfigs, {1})

botVars == <<sock, nsock, sockState, sockAuth, listeners, savedCreds, lastDisconnect>>
procVars == <<mainPc, running, exitCode, reported, botCreated>>

\* process.exit(code)
Exit(code) == running' = FALSE /\ exitCode' = code

\* ----------------------------------------------- the process-level handlers
\* process.on('unhandledRejection', ...): a rejection nobody handles is
\* dropped without a word if its message holds one of the three texts, and
\* else logged; the process goes on.
OnUnhandledRejection(error) ==
  fault' = [n |-> fault.n + 1, kind |-> "unhandledRejection", error |-> error,
            logged |-> ~IsTransient(RejectionMsg(error))]

\* A promise of some other code of the process is rejected and nobody
\* handles it.
UnhandledRejection(error) ==
  /\ running /\ fault.n < MaxFaults
  /\ OnUnhandledRejection(error)
  /\ UNCHANGED <<env, saving, calls, procVars, rejections, botVars, timers, conns, runs>>

\* process.on('uncaughtException', ...): an exception nobody catches is
\* dropped without a word if its message holds one of the three texts, and
\* else logged, and the process exits with code 1. A thrown value that is no
\* Error has no message: error.message.includes throws in the handler itself,
\* nothing is logged by it and node ends the process with code 7.
UncaughtException(error) ==
  /\ running /\ fault.n < MaxFaults
  /\ IF ~error.message.defined
     THEN /\ fault' = [n |-> fault.n + 1, kind |-> "uncaughtException",
                       error |-> error, logged |-> FALSE]
          /\ Exit(HandlerThrewExitCode)
     ELSE LET swallowed == IsTransient(error.message.chars)
          IN /\ fault' = [n |-> fault.n + 1, kind |-> "uncaughtException",
                          error |-> error, logged |-> ~swallowed]
             /\ IF swallowed THEN UNCHANGED <<running, exitCode>> ELSE Exit(1)
  /\ UNCHANGED <<env, saving, calls, mainPc, reported, botCreated, rejections, botVars,
                 timers, conns, runs>>

\* ------------------------------------------------------------------ main()
\* const missingVars = requiredEnvVars.filter(varName => !process.env[varName])
MissingVars == {k \in requiredEnvVars : Falsy(env[k])}

\* main() from its call to its first await. An empty allow-list throws out
\* of main(), whose promise nobody handles: the 'unhandledRejection' handler
\* logs it. A missing variable exits. Else the bot and the message handler are
\* created and connect() runs to its first await.
Main ==
  /\ running /\ mainPc = "start"
  /\ IF Len(AllowedChats) = 0
     THEN /\ mainPc' = "rejected"
          /\ rejections' = rejections \cup {"main"}
          /\ OnUnhandledRejection(NoChatsError)
          /\ UNCHANGED <<running, exitCode, reported, botCreated, conns>>
     ELSE IF MissingVars # {}
     THEN /\ reported' = MissingVars
          /\ mainPc' = "exited"
          /\ Exit(1)
          /\ UNCHANGED <<rejections, fault, botCreated, conns>>
     ELSE /\ botCreated' = TRUE
          /\ UNCHANGED <<reported, rejections, fault>>
          /\ \E built \in BOOLEAN :
               IF built
               THEN /\ mainPc' = "connecting"
                    /\ conns' = Append(conns, [origin |-> "main", pc |-> "fetch",
                                               timer |-> 0, loaded |-> 0])
                    /\ UNCHANGED <<running, exitCode>>
               ELSE \* new MessageHandler() threw: catch, process.exit(1)
                    /\ mainPc' = "exited"
                    /\ Exit(1)
                    /\ UNCHANGED conns
  /\ UNCHANGED <<env, saving, calls, botVars, timers, runs>>

\* The rejection of main() has been through the 'unhandledRejection'
\* handler; with nothing left on the event loop the process ends on its own.
ExitIdle ==
  /\ running /\ mainPc = "rejected"
  /\ Exit(0)
  /\ UNCHANGED <<env, saving, fault, calls, mainPc, reported, rejections, botCreated, botVars, timers,
                 conns, runs>>

\* --------------------------------------------------------------- connect()
\* ConnectFailed with the catch of connect() ending the process itself.
ConnectFailedExits(c) ==
  /\ conns' = [conns EXCEPT ![c].pc = "failed"]
  /\ mainPc' = "exited"
  /\ Exit(1)
  /\ UNCHANGED <<rejections, fault>>

\* An await of connect() c rejected: the catch logs and rethrows. main()
\* catches it and exits; thrown from the timer's callback, nobody awaits it
\* and it reaches the 'unhandledRejection' handler.
ConnectFailed(c) ==
  /\ conns' = [conns EXCEPT ![c].pc = "failed"]
  /\ IF conns[c].origin = "main"
     THEN /\ mainPc' = "exited"
          /\ Exit(1)
          /\ UNCHANGED <<rejections, fault>>
     ELSE /\ rejections' = rejections \cup {"connect"}
          /\ \E error \in AwaitErrors : OnUnhandledRejection(error)
          /\ UNCHANGED <<mainPc, running, exitCode>>

\* 'await fetchLatestBaileysVersion()' settles.
ConnectFetched(c) ==
  /\ running /\ conns[c].pc = "fetch"
  /\ \E ok \in BOOLEAN :
       IF ok
       THEN /\ conns' = [conns EXCEPT ![c].pc = "load"]
            /\ UNCHANGED <<mainPc, running, exitCode, rejections, fault>>
       ELSE ConnectFailed(c)
  /\ UNCHANGED <<env, saving, calls, reported, botCreated, botVars, timers, runs>>

\* 'await useMultiFileAuthState(authFolder)' settles: the saved credentials
\* are loaded, the socket is created and stored in this.sock, the three
\* listeners are attached to its emitter and connect() returns; main() then
\* runs to its end.
ConnectLoaded(c) ==
  /\ running /\ conns[c].pc = "load"
  /\ \E ok \in BOOLEAN :
       IF ok
       THEN /\ nsock < MaxSockets
            /\ LET s == nsock + 1
               IN /\ nsock' = s
                  /\ sock' = s
                  /\ sockState' = [sockState EXCEPT ![s] = "connecting"]
                  /\ sockAuth' = [sockAuth EXCEPT ![s] = LoadCreds(savedCreds)]
                  /\ listeners' = [listeners EXCEPT ![s] = AttachListeners(@)]
            /\ lastDisconnect' = NoError
            /\ conns' = [conns EXCEPT ![c].pc = "done",
                                      ![c].loaded = LoadCreds(savedCreds)]
            /\ mainPc' = IF conns[c].origin = "main" THEN "started" ELSE mainPc
            /\ UNCHANGED <<running, exitCode, rejections, fault, savedCreds>>
       ELSE /\ ConnectFailed(c)
            /\ UNCHANGED botVars
  /\ UNCHANGED <<env, saving, calls, reported, botCreated, timers, runs>>

\* ------------------------------------------------- the protocol session
\* connection.update { qr }: a socket without credentials asks for pairing;
\* the listener prints the code.
SockQr(s) ==
  /\ running /\ sockState[s] = "connecting" /\ sockAuth[s] = 0
  /\ sockState' = [sockState EXCEPT ![s] = "pairing"]
  /\ UNCHANGED <<env, saving, fault, calls, procVars, rejections, sock, nsock, sockAuth, listeners,
                 savedCreds, lastDisconnect, timers, conns, runs>>

\* Credentials are numbered in the order the sessions get them: the latest
\* credentials a session of this run has held (the folder's, before the
\* first session).
RECURSIVE MaxAuth(_)
MaxAuth(n) == IF n = 0 THEN savedCreds
              ELSE IF sockAuth[n] > MaxAuth(n - 1) THEN sockAuth[n] ELSE MaxAuth(n - 1)

LastCreds == MaxAuth(nsock)

\* creds.update: the session changed its credentials (pairing done, keys
\* rotated) to ones no session has had; every 'creds.update' listener
\* (saveCreds) starts to write them to the folder. Nobody awaits the promise
\* saveCreds returns.
SockCredsUpdate(s) ==
  /\ running /\ sockState[s] \in {"pairing", "open"}
  /\ LastCreds < MaxCreds
  /\ sockAuth' = [sockAuth EXCEPT ![s] = LastCreds + 1]
  /\ saving' = saving \o [k \in 1..listeners[s].creds |-> LastCreds + 1]
  /\ UNCHANGED <<env, fault, calls, procVars, rejections, sock, nsock, sockState,
                 listeners, savedCreds, lastDisconnect, timers, conns, runs>>

\* The oldest write saveCreds started settles: the folder holds the
\* credentials, or the write failed, the folder is as before and the
\* rejection, which nobody handles, reaches the 'unhandledRejection' handler.
CredsWritten(ok) ==
  /\ running /\ saving # <<>>
  /\ saving' = Tail(saving)
  /\ IF ok
     THEN /\ savedCreds' = Head(saving)
          /\ UNCHANGED <<rejections, fault>>
     ELSE /\ rejections' = rejections \cup {"saveCreds"}
          /\ \E error \in AwaitErrors : OnUnhandledRejection(error)
          /\ UNCHANGED savedCreds
  /\ UNCHANGED <<env, calls, procVars, sock, nsock, sockState, sockAuth, listeners,
                 lastDisconnect, timers, conns, runs>>

\* connection.update { connection: 'open' }: the handshake succeeded.
SockOpen(s) ==
  /\ running /\ sockState[s] \in {"connecting", "pairing"} /\ sockAuth[s] # 0
  /\ sockState' = [sockState EXCEPT ![s] = "open"]
  /\ UNCHANGED <<env, saving, fault, calls, procVars, rejections, sock, nsock, sockAuth, listeners,
                 savedCreds, lastDisconnect, timers, conns, runs>>

\* connection.update { connection: 'close', lastDisconnect }: the session
\* ended, once per socket; every 'connection.update' listener runs.
SockClose(s, reason) ==
  /\ running /\ Live(s)
  /\ sockState' = [sockState EXCEPT ![s] = "closed"]
  /\ lastDisconnect' = IF s = sock THEN reason ELSE lastDisconnect
  /\ timers' = OnClose(timers, s, reason, listeners[s].conn)
  /\ UNCHANGED <<env, saving, fault, calls, procVars, rejections, sock, nsock, sockAuth, listeners,
                 savedCreds, conns, runs>>

\* ------------------------------------------------------------- the timers
\* Time passes for the timers that are set.
Tick ==
  /\ running
  /\ \E k \in 1..Len(timers) : ~timers[k].fired /\ timers[k].waited < timers[k].delay
  /\ timers' = [k \in 1..Len(timers) |->
                  IF timers[k].fired THEN timers[k]
                  ELSE [timers[k] EXCEPT
                          !.waited = Min(@ + TickMs, timers[k].delay)]]
  /\ UNCHANGED <<env, saving, fault, calls, procVars, rejections, botVars, conns, runs>>

\* The timer's callback: this.connect(onMessage), up to its first await.
TimerFires(k) ==
  /\ running
  /\ ~timers[k].fired /\ timers[k].waited >= timers[k].delay
  /\ timers' = [timers EXCEPT ![k].fired = TRUE]
  /\ conns' = Append(conns, [origin |-> "timer", pc |-> "fetch", timer |-> k,
                              loaded |-> 0])
  /\ UNCHANGED <<env, saving, fault, calls, procVars, rejections, botVars, runs>>

\* ------------------------------------------------------------ the messages
\* messages.upsert { messages }: an open session delivers a batch; every
\* 'messages.upsert' listener of its emitter runs up to its first await.
\* The batch holds up to maxLen messages out of msgs.
Deliver(s, msgs, maxLen, limit) ==
  /\ running /\ sockState[s] = "open"
  /\ Len(runs) < limit
  /\ \E k \in 1..maxLen : \E batch \in [1..k -> msgs] :
       runs' = runs \o StartRuns(s, batch, listeners[s].msgs)
  /\ UNCHANGED <<env, saving, fault, calls, procVars, rejections, botVars, timers, conns>>

DeliverBatch(s) == Deliver(s, Messages, MaxBatchLen, MaxBatches)

\* The same, the session delivering its next batch only once the listener has
\* returned from the one before.
DeliverSerial(s) == Deliver(s, Messages, MaxBatchLen, 1)

\* One batch at a time, out of every message.
DeliverWide(s) == Deliver(s, AllMessages, MaxWideLen, 1)

\* The onMessage(from, message) call under way in the invocation r.
CallOf(r) == r.called[Len(r.called)]

\* 'await messageHandler.handleMessage(message)' resolves with the response:
\* onMessage calls bot.sendMessage(from, response), which throws when there is
\* no socket and else starts the transport send on this.sock.
HandlerReturns(b) ==
  /\ running /\ runs[b].phase = "handler"
  /\ IF NotConnected(sock)
     THEN runs' = [runs EXCEPT ![b] = OnMessageFailed(@)]
     ELSE runs' = [runs EXCEPT ![b] = [@ EXCEPT !.phase = "send",
                                                 !.tried = @ \cup {runs[b].idx},
                                                 !.sendSock = sock,
                                                 !.sendState = sockState[sock],
                                                 !.sendTo = CallOf(runs[b]).from]]
  /\ UNCHANGED <<env, saving, fault, calls, procVars, rejections, botVars, timers, conns>>

\* 'await messageHandler.handleMessage(message)' rejects, and with it
\* onMessage; an error that left the listener would reach the
\* 'unhandledRejection' handler.
HandlerThrows(b) ==
  /\ running /\ runs[b].phase = "handler"
  /\ LET r == OnMessageFailed([runs[b] EXCEPT !.threw = @ \cup {runs[b].idx}])
     IN /\ runs' = [runs EXCEPT ![b] = r]
        /\ IF r.ended = "threw"
           THEN /\ rejections' = rejections \cup {"listener"}
                /\ \E error \in AwaitErrors : OnUnhandledRejection(error)
           ELSE UNCHANGED <<rejections, fault>>
  /\ UNCHANGED <<env, saving, calls, procVars, botVars, timers, conns>>

\* 'await this.sock.sendMessage(to, { text })' settles. A failure is logged
\* in sendMessage and not rethrown; either way onMessage returns and the loop
\* goes on. Only an open session delivers.
SendSettles(b, ok) ==
  /\ running /\ runs[b].phase = "send"
  /\ ok => sockState[runs[b].sendSock] = "open"
  /\ LET r == [runs[b] EXCEPT !.replied = IF ok THEN @ \cup {runs[b].idx} ELSE @,
                               !.sendSock = NoSock, !.sendState = "none",
                               !.sendTo = <<>>]
     IN runs' = [runs EXCEPT ![b] =
                   IF ok \/ SwallowsSendError("sendMessage")
                   THEN Resume(r, runs[b].idx + 1)
                   ELSE OnMessageFailed(r)]
  /\ UNCHANGED <<env, saving, fault, calls, procVars, rejections, botVars, timers, conns>>

\* ------------------------------------------------- the sending methods
\* bot.sendMessage(to, text) or bot.reply(to, text, quoted) called on the
\* bot from outside the listener: it throws when there is no socket and else
\* starts the transport send on this.sock.
BotCall(op) ==
  /\ running /\ botCreated
  /\ Len(calls) < MaxCalls
  /\ calls' = Append(calls,
                IF NotConnected(sock)
                THEN [op |-> op, sendSock |-> NoSock, sendState |-> "none",
                      attempt |-> "none", outcome |-> "rejected"]
                ELSE [op |-> op, sendSock |-> sock, sendState |-> sockState[sock],
                      attempt |-> "pending", outcome |-> "pending"])
  /\ UNCHANGED <<env, saving, fault, procVars, rejections, botVars, timers, conns, runs>>

\* The transport send of the call k settles: the promise of the call
\* resolves, or rejects when the failure is not caught in the method.
BotCallSettles(k, ok) ==
  /\ running /\ calls[k].attempt = "pending"
  /\ ok => sockState[calls[k].sendSock] = "open"
  /\ calls' = [calls EXCEPT ![k] =
                 [@ EXCEPT !.attempt = IF ok THEN "sent" ELSE "failed",
                           !.outcome = IF ok \/ SwallowsSendError(calls[k].op)
                                       THEN "resolved" ELSE "rejected"]]
  /\ UNCHANGED <<env, saving, fault, procVars, rejections, botVars, timers, conns, runs>>

\* The listener invocation b has returned; it is followed no further.
ListenerReturned(b) ==
  /\ runs[b].phase = "done"
  /\ runs' = [k \in 1..(Len(runs) - 1) |-> IF k < b THEN runs[k] ELSE runs[k + 1]]
  /\ UNCHANGED <<env, saving, fault, calls, procVars, rejections, botVars, timers, conns>>

\* ------------------------------------------------------------------- Next
Next ==
  \/ Main
  \/ ExitIdle
  \/ \E c \in 1..Len(conns) : ConnectFetched(c)
  \/ \E c \in 1..Len(conns) : ConnectLoaded(c)
  \/ \E s \in Sockets : SockQr(s)
  \/ \E s \in Sockets : SockCredsUpdate(s)
  \/ \E ok \in BOOLEAN : CredsWritten(ok)
  \/ \E s \in Sockets : SockOpen(s)
  \/ \E s \in Sockets, reason \in Reasons : SockClose(s, reason)
  \/ Tick
  \/ \E k \in 1..Len(timers) : TimerFires(k)
  \/ \E s \in Sockets : DeliverBatch(s)
  \/ \E b \in 1..Len(runs) : HandlerReturns(b)
  \/ \E b \in 1..Len(runs) : HandlerThrows(b)
  \/ \E b \in 1..Len(runs), ok \in BOOLEAN : SendSettles(b, ok)
  \/ \E b \in 1..Len(runs) : ListenerReturned(b)

Spec == Init /\ [][Next]_vars

\* The session over its whole life, with the batches coming one at a time:
\* the listener invocations change nothing of the session, so what holds of
\* the session here holds of it under Spec.
NextSession ==
  \/ Main
  \/ ExitIdle
  \/ \E c \in 1..Len(conns) : ConnectFetched(c)
  \/ \E c \in 1..Len(conns) : ConnectLoaded(c)
  \/ \E s \in Sockets : SockQr(s)
  \/ \E s \in Sockets : SockCredsUpdate(s)
  \/ \E ok \in BOOLEAN : CredsWritten(ok)
  \/ \E s \in Sockets : SockOpen(s)
  \/ \E s \in Sockets, reason \in Reasons : SockClose(s, reason)
  \/ Tick
  \/ \E k \in 1..Len(timers) : TimerFires(k)
  \/ \E s \in Sockets : DeliverSerial(s)
  \/ \E b \in 1..Len(runs) : HandlerReturns(b)
  \/ \E b \in 1..Len(runs) : HandlerThrows(b)
  \/ \E b \in 1..Len(runs), ok \in BOOLEAN : SendSettles(b, ok)
  \/ \E b \in 1..Len(runs) : ListenerReturned(b)

SpecSession == Init /\ [][NextSession]_vars

\* Startup alone, over every configuration.
NextStartup ==
  \/ Main
  \/ ExitIdle

SpecStartup == InitStartup /\ [][NextStartup]_vars

\* The listener alone, on a session that opens and stays open, over every
\* message.
NextListener ==
  \/ Main
  \/ \E c \in 1..Len(conns) : ConnectFetched(c)
  \/ \E c \in 1..Len(conns) : ConnectLoaded(c)
  \/ \E s \in Sockets : SockOpen(s)
  \/ \E s \in Sockets : DeliverWide(s)
  \/ \E b \in 1..Len(runs) : HandlerReturns(b)
  \/ \E b \in 1..Len(runs) : HandlerThrows(b)
  \/ \E b \in 1..Len(runs), ok \in BOOLEAN : SendSettles(b, ok)
  \/ \E b \in 1..Len(runs) : ListenerReturned(b)

SpecListener == InitListener /\ [][NextListener]_vars

\* The sending methods called at any moment of the life of the session.
NextCalls ==
  \/ Main
  \/ \E c \in 1..Len(conns) : ConnectFetched(c)
  \/ \E c \in 1..Len(conns) : ConnectLoaded(c)
  \/ \E s \in Sockets : SockOpen(s)
  \/ \E s \in Sockets, reason \in Reasons : SockClose(s, reason)
  \/ Tick
  \/ \E k \in 1..Len(timers) : TimerFires(k)
  \/ \E op \in SendOps : BotCall(op)
  \/ \E k \in 1..Len(calls), ok \in BOOLEAN : BotCallSettles(k, ok)

SpecCalls == InitListener /\ [][NextCalls]_vars

\* The process-level handlers, over every error value.
NextFaults ==
  \/ Main
  \/ \E error \in Thrown : UnhandledRejection(error)
  \/ \E error \in Thrown : UncaughtException(error)

InitFaults == InitWith({EnvWith(AllSet, Text(<<"a">>))}, {1})

SpecFaults == InitFaults /\ [][NextFaults]_vars

\* ================================================================= claims
\* What the claims speak of, stated from the messages and the configuration
\* themselves.
AllowList == Range(AllowedChats)

\* The text a message carries: the conversation field if it is a non-empty
\* string, else the extended text if it is one, else none.
TextOf(m) ==
  IF ~m.message.present THEN ""
  ELSE IF m.message.conversation \notin {Undefined, ""} THEN m.message.conversation
  ELSE IF m.message.extText \notin {Undefined, ""} THEN m.message.extText
  ELSE ""

\* The onMessage calls the invocation r has made for its message i.
CallsFor(r, i) == {k \in 1..Len(r.called) : r.called[k].idx = i}

Handled(r, i) == CallsFor(r, i) # {} \/ i \in r.tried \/ i \in r.replied

PendingTimers == {k \in 1..Len(timers) : ~timers[k].fired}
PendingReconnects ==
  {c \in 1..Len(conns) : conns[c].origin = "timer" /\ conns[c].pc \in {"fetch", "load"}}
LiveSockets == {s \in Sockets : Live(s)}

\* C1: a transport send is started only while the connection state is Open.
C1_SendOnlyWhenOpen ==
  \A b \in 1..Len(runs) : runs[b].phase = "send" => runs[b].sendState = "open"

\* C2: with a non-empty allow-list, a message whose sender is not in the
\* allow-list gets no onMessage call and no reply.
C2_UnauthorizedNeverHandled ==
  \A b \in 1..Len(runs) : \A i \in 1..Len(runs[b].msgs) :
    (AllowList # {} /\ runs[b].msgs[i].remoteJid \notin AllowList)
      => ~Handled(runs[b], i)

\* A batch whose second message comes from a chat that is not allowed was
\* gone through: its first message was handled, the second stopped the
\* listener.
C2_Witness ==
  \E b \in 1..Len(runs) :
    /\ runs[b].phase = "done" /\ runs[b].ended = "return" /\ runs[b].idx = 2
    /\ runs[b].msgs[2].remoteJid \notin AllowList
    /\ CallsFor(runs[b], 1) # {}

\* C3: once the listener has gone through a batch, every message of it that
\* is not from self, carries a text and comes from an allowed chat has had
\* exactly one onMessage call, with its sender and its text.
Eligible(m) == ~m.fromMe /\ TextOf(m) # "" /\ m.remoteJid \in AllowList

C3_EveryAcceptedHandledOnce ==
  \A b \in 1..Len(runs) :
    runs[b].phase = "done" =>
      \A i \in 1..Len(runs[b].msgs) :
        Eligible(runs[b].msgs[i]) =>
          /\ Cardinality(CallsFor(runs[b], i)) = 1
          /\ \A k \in CallsFor(runs[b], i) :
               /\ runs[b].called[k].from = runs[b].msgs[i].remoteJid
               /\ runs[b].called[k].text = TextOf(runs[b].msgs[i])

\* C4: a close whose reason is not loggedOut sets one reconnect timer, which
\* calls connect() once and not before the 5000 ms have passed; no two
\* timers or timer-driven connect() runs are pending together, and none is
\* pending beside a live session.
Retryable(reason) == reason # Boom(loggedOut)

C4_ReconnectOnce ==
  /\ \A s \in Sockets : Cardinality({k \in 1..Len(timers) : timers[k].sock = s}) <= 1
  /\ (sock # NoSock /\ sockState[sock] = "closed" /\ Retryable(lastDisconnect))
       => Cardinality({k \in 1..Len(timers) : timers[k].sock = sock}) = 1
  /\ \A k \in 1..Len(timers) :
       /\ timers[k].delay = 5000
       /\ Cardinality({c \in 1..Len(conns) : conns[c].timer = k})
            = IF timers[k].fired THEN 1 ELSE 0
       /\ timers[k].fired => timers[k].waited >= 5000
  /\ Cardinality(PendingTimers) + Cardinality(PendingReconnects)
       + Cardinality(LiveSockets) <= 1

\* A second session, created by the timer a close of the first one set, has
\* closed in its turn and its own timer is running.
C4_Witness ==
  /\ nsock = 2 /\ sock = 2 /\ sockState[2] = "closed"
  /\ Len(timers) = 2 /\ timers[1].fired /\ ~timers[2].fired
  /\ lastDisconnect = NoError

\* C5: from a close with reason loggedOut on, no reconnect timer and no
\* connect() is pending, no session is live, and this stays so.
LoggedOut ==
  sock # NoSock /\ sockState[sock] = "closed" /\ lastDisconnect = Boom(loggedOut)

Quiet == PendingTimers = {} /\ PendingReconnects = {} /\ LiveSockets = {}

C5_NoReconnectAfterLogout ==
  [][LoggedOut => (Quiet /\ LoggedOut' /\ Quiet' /\ conns' = conns /\ nsock' = nsock)]_vars

\* The second session, set up by a reconnect, was logged out while a message
\* it had delivered was still being handled.
C5_Witness ==
  LoggedOut /\ sock = 2 /\ \E b \in 1..Len(runs) : runs[b].phase = "handler"

\* C6: a message whose handler threw gets no reply; the error stays in the
\* listener, which goes on with the next message of the batch and calls
\* onMessage for it if it is eligible.
C6_HandlerThrowIsolated ==
  /\ "listener" \notin rejections
  /\ \A b \in 1..Len(runs) : \A i \in runs[b].threw :
       /\ i \notin runs[b].tried /\ i \notin runs[b].replied
       /\ runs[b].ended # "threw"
       /\ runs[b].idx > i
       /\ (i < Len(runs[b].msgs) /\ Eligible(runs[b].msgs[i + 1]))
            => CallsFor(runs[b], i + 1) # {}

\* The handler threw for the first message of a batch and is now running for
\* the second, while a later batch is being handled too.
C6_Witness ==
  /\ Len(runs) = 2
  /\ runs[1].threw = {1} /\ runs[1].phase = "handler" /\ runs[1].idx = 2
  /\ runs[2].phase = "handler"

\* C7: every socket created has one listener of each kind and the others
\* none, so an event is handled once: one listener invocation per batch, one
\* timer per close; and no socket other than the one in this.sock is live,
\* so no listener of a former session runs beside those of the current one.
C7_ListenersOncePerSocket ==
  /\ \A s \in Sockets :
       listeners[s] = IF s <= nsock THEN [creds |-> 1, conn |-> 1, msgs |-> 1]
                      ELSE NoListeners
  /\ \A b \in 1..Len(runs) : runs[b].listener = 1
  /\ \A s \in Sockets : Cardinality({k \in 1..Len(timers) : timers[k].sock = s}) <= 1
  /\ \A s \in Sockets : Live(s) => s = sock

\* After a reconnect, the second session handles a message.
C7_Witness ==
  /\ nsock = 2 /\ sockState[2] = "open"
  /\ \E b \in 1..Len(runs) : runs[b].sock = 2 /\ runs[b].phase = "handler"

\* C8: when a required variable is unset, the bot is never created and
\* connect() never called, and the process ends with exit code 1 after
\* printing every unset variable.
UnsetVars == {k \in requiredEnvVars : ~env[k].defined}

C8_MissingKeyExitsOne ==
  UnsetVars # {} =>
    /\ ~botCreated /\ conns = <<>>
    /\ ~running => (exitCode = 1 /\ UnsetVars \subseteq reported)

\* C9: when ALLOWED_CHATS yields no chat, connect() is never called and the
\* process ends with exit code 1.
C9_EmptyAllowListExitsOne ==
  AllowList = {} =>
    /\ conns = <<>>
    /\ ~running => exitCode = 1

\* C10: a message with fromMe set gets no onMessage call and no reply.
C10_OwnMessagesIgnored ==
  \A b \in 1..Len(runs) : \A i \in 1..Len(runs[b].msgs) :
    runs[b].msgs[i].fromMe => ~Handled(runs[b], i)

\* The listener passed over a message of the bot's own, sent in an allowed
\* chat with a text, and is handling the message after it.
C10_Witness ==
  \E b \in 1..Len(runs) :
    /\ runs[b].msgs[1].fromMe /\ runs[b].msgs[1].remoteJid \in AllowList
    /\ TextOf(runs[b].msgs[1]) # ""
    /\ runs[b].phase = "handler" /\ runs[b].idx = 2

\* C11: a message without a text (no payload, or neither the conversation
\* field nor the extended text a non-empty string) gets no onMessage call
\* and no reply, whoever sent it and whatever the allow-list.
C11_EmptyTextIgnored ==
  \A b \in 1..Len(runs) : \A i \in 1..Len(runs[b].msgs) :
    TextOf(runs[b].msgs[i]) = "" => ~Handled(runs[b], i)

\* The listener passed over a message from an allowed chat whose payload
\* holds an empty conversation field and no extended text, and is handling
\* the message after it.
C11_Witness ==
  \E b \in 1..Len(runs) :
    /\ ~runs[b].msgs[1].fromMe /\ runs[b].msgs[1].remoteJid \in AllowList
    /\ runs[b].msgs[1].message = Payload("", Undefined)
    /\ runs[b].phase = "handler" /\ runs[b].idx = 2

\* C12: when there is a session and the transport send of a sendMessage call
\* fails, the call resolves all the same, nothing reaches the caller or the
\* process, and the connection state and this.sock are as before.
C12_SendFailureSwallowed ==
  [][\A k \in 1..Len(calls) :
       (calls[k].op = "sendMessage" /\ calls[k].attempt = "pending"
          /\ calls'[k].attempt = "failed")
       => /\ calls'[k].outcome = "resolved"
          /\ sock' = sock /\ sockState' = sockState
          /\ rejections' = rejections /\ running' = running]_vars

\* A sendMessage call started on the open session has failed in the
\* transport and resolved.
C12_Witness ==
  \E k \in 1..Len(calls) :
    /\ calls[k].op = "sendMessage" /\ calls[k].sendState = "open"
    /\ calls[k].attempt = "failed" /\ calls[k].outcome = "resolved"

\* C13: a reply call made while the connection state is not Open is
\* rejected with the not-connected error and starts no transport send; one
\* whose transport send fails is rejected.
StateNow == IF sock = NoSock THEN "none" ELSE sockState[sock]

C13_ReplyLikeSendButPropagates ==
  [][\A k \in 1..Len(calls') :
       /\ (k > Len(calls) /\ calls'[k].op = "reply")
            => /\ StateNow # "open" =>
                    (calls'[k].attempt = "none" /\ calls'[k].outcome = "rejected")
               /\ StateNow = "open" => calls'[k].attempt = "pending"
       /\ (k <= Len(calls) /\ calls[k].op = "reply" /\ calls[k].attempt = "pending"
              /\ calls'[k].attempt = "failed")
            => calls'[k].outcome = "rejected"]_vars

\* C14: every credentials update of a session is persisted: once no write
\* is under way the folder holds the last credentials a session had; every
\* connect() loads those; and once a session has had credentials no session
\* enters pairing.
C14_CredentialRoundTrip ==
  [][/\ saving' = <<>> => savedCreds' = LastCreds'
     /\ \A c \in 1..Len(conns) :
          (conns[c].pc = "load" /\ conns'[c].pc = "done")
          => conns'[c].loaded = LastCreds
     /\ \A s \in Sockets :
          (LastCreds # 0 /\ sockState[s] # "pairing") => sockState'[s] # "pairing"
    ]_vars

\* C15: onMessage calls start in the order of delivery: when the call for a
\* message starts, no call has started for a message delivered after it,
\* be it in a later batch.
C15_HandledInDeliveryOrder ==
  [][\A b \in 1..Len(runs) :
       (Len(runs') = Len(runs) /\ Len(runs'[b].called) > Len(runs[b].called))
       => \A later \in (b + 1)..Len(runs) : runs[later].called = <<>>]_vars

\* C16: when the reconnect timer calls connect(), no transport send is
\* pending; and no transport send is pending on a socket other than the
\* one this.sock holds.
PendingSends == {b \in 1..Len(runs) : runs[b].phase = "send"}

C16_NoSendAcrossReconnect ==
  [][/\ (Len(conns') > Len(conns) /\ conns'[Len(conns')].origin = "timer")
          => PendingSends = {}
     /\ \A b \in 1..Len(runs') :
          runs'[b].phase = "send" => runs'[b].sendSock = sock']_vars

\* C17: a rejection nobody handles whose message holds 'Bad MAC', 'decrypt'
\* or 'Session error' is dropped without a word, any other is logged, and
\* neither ends the process; an exception nobody catches whose message holds
\* one of them is dropped likewise, any other is logged and the process
\* exits with code 1.
Holds(text, pat) ==
  \E i \in 0..Len(text) :
    /\ i + Len(pat) <= Len(text)
    /\ \A k \in 1..Len(pat) : text[i + k] = pat[k]

MessageOf(error) == IF error.isError THEN error.message.chars ELSE error.str

Noise(error) ==
  \E pat \in {BadMAC, Decrypt, SessionError} : Holds(MessageOf(error), pat)

C17_ErrorPolicy ==
  [][fault'.n # fault.n =>
       /\ fault'.kind = "unhandledRejection" =>
            /\ fault'.logged = ~Noise(fault'.error)
            /\ running' /\ exitCode' = exitCode
       /\ fault'.kind = "uncaughtException" =>
            IF Noise(fault'.error)
            THEN ~fault'.logged /\ running' /\ exitCode' = exitCode
            ELSE fault'.logged /\ ~running' /\ exitCode' = 1]_vars

\* C18: a handler exception or a send failure for one message changes
\* neither the connection state nor this.sock, sets no timer and starts no
\* connect(), leaves the process and the other listener invocations as they
\* are, and the invocation goes on to the message it would have gone on to:
\* the next one that is not the bot's own, has a payload and either comes
\* from a chat that is not allowed (the listener ends there) or has a text
\* (onMessage is called for it).
Stops(m) == ~m.fromMe /\ m.message.present
            /\ (m.remoteJid \notin AllowList \/ TextOf(m) # "")

After(r) ==
  LET js == {j \in (r.idx + 1)..Len(r.msgs) : Stops(r.msgs[j])}
  IN IF js = {} THEN Len(r.msgs) + 1
     ELSE CHOOSE j \in js : \A k \in js : j <= k

FailsIn(b) ==
  /\ Len(runs') = Len(runs)
  /\ \/ runs'[b].threw # runs[b].threw
     \/ /\ runs[b].phase = "send" /\ runs'[b] # runs[b]
        /\ runs[b].idx \notin runs'[b].replied

C18_FailureIsolated ==
  [][\A b \in 1..Len(runs) :
       FailsIn(b) =>
         /\ sock' = sock /\ sockState' = sockState /\ lastDisconnect' = lastDisconnect
         /\ timers' = timers /\ conns' = conns
         /\ running' = running /\ rejections' = rejections
         /\ \A k \in 1..Len(runs) : k # b => runs'[k] = runs[k]
         /\ LET j == After(runs[b])
                m == runs[b].msgs[j]
            IN /\ runs'[b].msgs = runs[b].msgs
               /\ runs'[b].idx = j
               /\ IF j <= Len(runs[b].msgs) /\ m.remoteJid \in AllowList
                  THEN /\ runs'[b].phase = "handler"
                       /\ runs'[b].called =
                            Append(runs[b].called,
                                   [idx |-> j, from |-> m.remoteJid, text |-> TextOf(m)])
                  ELSE /\ runs'[b].phase = "done"
                       /\ runs'[b].called = runs[b].called]_vars

\* On the open session, the send for the first message of a batch failed
\* and the handler threw for the second; the listener is at the end of the
\* batch while a later batch is being handled.
C18_Witness ==
  /\ Len(runs) = 2 /\ sock # NoSock /\ sockState[sock] = "open" /\ timers = <<>>
  /\ runs[1].tried = {1} /\ runs[1].replied = {} /\ runs[1].threw = {2}
  /\ runs[1].phase = "done" /\ runs[1].ended = "end"
  /\ runs[2].phase = "handler"

\* C19: a session exists only with a non-empty allow-list, so the listener
\* always filters; and every transport send is addressed to the sender of
\* the message being handled, an eligible message from a chat of the
\* allow-list.
C19_RepliesOnlyToAllowList ==
  /\ (nsock > 0 \/ runs # <<>>) => AllowList # {}
  /\ \A b \in 1..Len(runs) :
       runs[b].phase = "send" =>
         /\ runs[b].sendTo = runs[b].msgs[runs[b].idx].remoteJid
         /\ Eligible(runs[b].msgs[runs[b].idx])
         /\ runs[b].sendTo \in AllowList

\* The listener passed over a message of the bot's own, and the reply to the
\* message after it is being sent to its sender.
C19_Witness ==
  /\ AllowList = {JidA, JidB}
  /\ \E b \in 1..Len(runs) :
       /\ runs[b].phase = "send" /\ runs[b].sendTo = JidA /\ runs[b].idx = 2
       /\ runs[b].msgs[1].fromMe

\* C20: once a connect() called by the reconnect timer has failed, the
\* process goes on, no timer and no connect() is pending and none is added,
\* this.sock keeps the closed socket, no socket is created, no listener
\* attached and no socket opens; a failure of the connect() called by main()
\* ends the process with exit code 1.
ReconnectFailed ==
  \E c \in 1..Len(conns) : conns[c].origin = "timer" /\ conns[c].pc = "failed"

C20_FailedReconnectIsFinal ==
  [][/\ ReconnectFailed' =>
          /\ running' /\ exitCode' = 0 /\ "connect" \in rejections'
          /\ fault'.kind = "unhandledRejection"
          /\ Quiet'
          /\ sock' # NoSock /\ sockState'[sock'] = "closed"
     /\ ReconnectFailed =>
          /\ sock' = sock /\ nsock' = nsock /\ sockState' = sockState
          /\ listeners' = listeners /\ timers' = timers
          /\ Len(conns') = Len(conns)
     /\ \A c \in 1..Len(conns') :
          (conns'[c].origin = "main" /\ conns'[c].pc = "failed")
          => (~running' /\ exitCode' = 1)]_vars

\* The first reconnect went through; the second session closed in its turn
\* and the connect() its timer called has failed, while a message is still
\* being handled.
C20_Witness ==
  /\ ReconnectFailed /\ sock = 2 /\ running
  /\ \E b \in 1..Len(runs) : runs[b].phase = "handler"
====
